---------------------------- MODULE Spec2Model ----------------------------
(***************************************************************************)
(* A model of dblp/__init__.py: the lazy entities (LazyAPIData, Author,    *)
(* Publication), the tree decoder make_dict_from_tree, and the two search  *)
(* drivers search_author and search_publication with their worker pools.   *)
(*                                                                         *)
(* The specifications share the variables; each one drives one part of    *)
(* the program and leaves the other parts at rest:                         *)
(*   SpecPub    search_publication and its pool of page requests           *)
(*   SpecPubFair     the same without failing requests, threads fair       *)
(*   SpecPubLimited  the same against a service that may stop sending hits *)
(*   SpecAuth   search_author and its pool of resolve_url tasks            *)
(*   SpecLazy   field access on one Author or Publication entity           *)
(*   SpecRace   two threads accessing fields of one entity                 *)
(*   SpecTree   make_dict_from_tree applied to a bounded element tree      *)
(*                                                                         *)
(* Python's None is the empty tuple and a present value v is <<v>>, so     *)
(* that "absent" and "present" are always comparable.                      *)
(***************************************************************************)
EXTENDS Integers, Sequences, FiniteSets, TLC

VARIABLES
    \* ---- search_publication
    years,      \* the `years` argument: a sequence of distinct years
    srvTotal,   \* the service's total number of hits, per year
    srvLimit,   \* per year: None, or <<the offset past which the service
                \* sends no hit, whatever the total it reports>>
    p_pc,       \* position of the driver: start, submit, loop, done, raised
    p_i,        \* index of the next year to submit in the for loop
    tasks,      \* every work item given to r_executor, in submission order
    futures,    \* the list `futures`: indexes into tasks
    respones,   \* the list `respones` (runs of hit records, see HitRun)
    p_ret,      \* what the caller received: None, or <<list>>
    awaited,    \* history: the tasks whose result() the driver has taken
    r_executor, \* the pool of search_publication: none, open, shutdown
    \* ---- search_author
    hits,       \* the search response: None (no 'hit' key) or <<hit list>>
    a_pc,       \* position of the driver: start, submit, collect, done, raised
    a_i,        \* loop index of the submit loop, then of the collect loop
    a_tasks,    \* the list `futures` of search_author: one work item per hit
    results,    \* the list `results`
    a_ret,      \* what the caller received: Python's None, or <<list>>
    a_order,    \* history: the work items in the order they completed
    executor,   \* the pool of search_author: none, open, shutdown
    \* ---- lazy entities
    ent,        \* the entity: its kind, data (None or <<mapping>>) and xml
    srv_doc,    \* <<the document the service holds for the entity>>
    c_pc,       \* per caller: idle, check, fetch, parse, read
    c_key,      \* per caller: the attribute name being accessed
    c_doc,      \* per caller: the document its load_data has fetched
    c_out,      \* per caller: the outcome of its last access
    \* ---- make_dict_from_tree
    t_in,       \* the element tree given to make_dict_from_tree
    t_out,      \* None, or <<the returned dictionary>>
    t_pc        \* input, output

pubVars  == <<years, srvTotal, srvLimit, p_pc, p_i, tasks, futures, respones, p_ret, awaited,
             r_executor>>
authVars == <<hits, a_pc, a_i, a_tasks, results, a_ret, a_order, executor>>
lazyVars == <<ent, srv_doc, c_pc, c_key, c_doc, c_out>>
treeVars == <<t_in, t_out, t_pc>>
vars     == <<pubVars, authVars, lazyVars, treeVars>>

None == <<>>
Some(v) == <<v>>

Min(a, b) == IF a <= b THEN a ELSE b

\* ------------------------------------------------------------------------
\* Bounds of the model
\* ------------------------------------------------------------------------
MaxYears == 2
MaxFullPages == 2
MaxHits == 3
MaxNodes == 5
MaxCites == 3
MaxRecords == 1
MaxRaceCites == 0
MaxRaceRecords == 0

\* ------------------------------------------------------------------------
\* Program constants
\* ------------------------------------------------------------------------
\* 'h': '1000', the page size asked for in the initial request
PageSize == 1000
\* ThreadPoolExecutor(max_workers=50)
max_workers == 50

\* ========================================================================
\* search_publication
\* ========================================================================

\* A URL is its query string: the sequence of parameters in the order the
\* params dictionary lists them, each [k |-> name, v |-> number].  q carries
\* the year of "publ_str year:<year>"; format=json is written with v = 0.
InitialUrl(year) ==
    << [k |-> "q", v |-> year], [k |-> "format", v |-> 0],
       [k |-> "h", v |-> PageSize], [k |-> "f", v |-> 0] >>

HasParam(url, name) == \E i \in 1..Len(url) : url[i].k = name

Param(url, name, default) ==
    IF HasParam(url, name)
    THEN url[CHOOSE i \in 1..Len(url) :
                 url[i].k = name /\ \A j \in 1..(i-1) : url[j].k # name].v
    ELSE default

\* url.find("&" + name + "="): the position of the first parameter called
\* name that follows a "&" (so not the first one), 0 when there is none
\* (Python's -1).
FindParam(url, name) ==
    IF \E i \in 2..Len(url) : url[i].k = name
    THEN CHOOSE i \in 2..Len(url) :
             url[i].k = name /\ \A j \in 2..(i-1) : url[j].k # name
    ELSE 0

\* A mutant of ContinuationUrl: the URL is cut at "&h=", losing the page size.
ContinuationUrl_CutAtH(url, current_first) ==
    LET i == FindParam(url, "h") IN
    SubSeq(url, 1, i - 1) \o << [k |-> "f", v |-> current_first] >>

\* url[:url.find("&f=")] + "&f=" + str(current_first).  When "&f=" is not
\* found the slice [:-1] drops the last character: the last parameter's
\* value loses its last digit.
ContinuationUrl(url, current_first) ==
    LET i == FindParam(url, "f") IN
    IF i > 0
    THEN SubSeq(url, 1, i - 1) \o << [k |-> "f", v |-> current_first] >>
    ELSE [url EXCEPT ![Len(url)].v = @ \div 10]
             \o << [k |-> "f", v |-> current_first] >>

\* The records first .. first+n-1 of a year's result list, as one run: a
\* page's 'hit' list is <<[info |-> run]>>, its n records written as a run.
HitRun(year, first, n) == [year |-> year, first |-> first, n |-> n]

\* The publication search endpoint: /search/publ/api?q=..&format=json&h=..&f=..
\* answers with @first, @sent, @total and, when it sends any hit, 'hit'.
\* Without h the service uses its own page size of 30.  The service may
\* report a total larger than the number of hits it is willing to send.
Respond(url) ==
    LET year  == Param(url, "q", 0)
        first == Param(url, "f", 0)
        h     == Param(url, "h", 30)
        total == IF year \in DOMAIN srvTotal THEN srvTotal[year] ELSE 0
        avail == IF year \in DOMAIN srvLimit /\ srvLimit[year] # None
                 THEN Min(total, srvLimit[year][1])
                 ELSE total
        sent  == IF first < avail THEN Min(h, avail - first) ELSE 0
    IN  [ url   |-> url,
          first |-> first,
          sent  |-> sent,
          total |-> total,
          hit   |-> IF sent > 0
                    THEN Some(<< [info |-> HitRun(year, first, sent)] >>)
                    ELSE None ]

\* cleanup(pubs): each hit reduced to its 'info'.
cleanup(pubs) == [i \in 1..Len(pubs) |-> pubs[i].info]

Running(ts) == {t \in 1..Len(ts) : ts[t].st = "running"}

NewTask(url) == [url |-> url, st |-> "queued", resp |-> None]

Totals ==
    {k * PageSize : k \in 0..MaxFullPages}
        \cup {1, PageSize + 1, 2 * PageSize + PageSize \div 2}

AuthRest ==
    /\ hits = None /\ a_pc = "rest" /\ a_i = 0 /\ a_tasks = <<>>
    /\ results = <<>> /\ a_ret = None /\ a_order = <<>>
    /\ executor = "none"

LazyRest ==
    /\ ent = [kind |-> "none", data |-> None, xml |-> None]
    /\ srv_doc = None
    /\ c_pc = <<>> /\ c_key = <<>> /\ c_doc = <<>> /\ c_out = <<>>

TreeRest == t_in = None /\ t_out = None /\ t_pc = "rest"

PubRest ==
    /\ years = <<>> /\ srvTotal = <<>> /\ srvLimit = <<>>
    /\ p_pc = "rest" /\ p_i = 0
    /\ tasks = <<>> /\ futures = <<>> /\ respones = <<>> /\ p_ret = None
    /\ awaited = <<>>
    /\ r_executor = "none"

PubInit ==
    /\ \E n \in 0..MaxYears :
          /\ years = [i \in 1..n |-> i]
          /\ srvTotal \in [1..n -> Totals]
          /\ srvLimit = [i \in 1..n |-> None]
    /\ p_pc = "start" /\ p_i = 1
    /\ tasks = <<>> /\ futures = <<>> /\ respones = <<>> /\ p_ret = None
    /\ awaited = <<>>
    /\ r_executor = "none"
    /\ AuthRest /\ LazyRest /\ TreeRest

\* The offsets at which the service may stop sending hits.
Limits == {None, Some(0), Some(PageSize)}

\* search_publication against a service that may stop sending hits before
\* the total it reports is reached.
PubInitLimited ==
    /\ \E n \in 0..MaxYears :
          /\ years = [i \in 1..n |-> i]
          /\ srvTotal \in [1..n -> Totals]
          /\ srvLimit \in [1..n -> Limits]
    /\ p_pc = "start" /\ p_i = 1
    /\ tasks = <<>> /\ futures = <<>> /\ respones = <<>> /\ p_ret = None
    /\ awaited = <<>>
    /\ r_executor = "none"
    /\ AuthRest /\ LazyRest /\ TreeRest

\* lines 227-231: the pool and the lists are created, the query is built.
PubCall ==
    /\ p_pc = "start"
    /\ p_pc' = IF years = <<>> THEN "loop" ELSE "submit"
    /\ r_executor' = "open"
    /\ UNCHANGED <<years, srvTotal, srvLimit, p_i, tasks, futures, respones, p_ret, awaited,
                 authVars, lazyVars, treeVars>>

\* lines 232-239: one initial page request per year.
PubSubmit ==
    /\ p_pc = "submit"
    /\ p_i <= Len(years)
    /\ tasks' = Append(tasks, NewTask(InitialUrl(years[p_i])))
    /\ futures' = Append(futures, Len(tasks) + 1)
    /\ p_i' = p_i + 1
    /\ p_pc' = IF p_i = Len(years) THEN "loop" ELSE "submit"
    /\ UNCHANGED <<years, srvTotal, srvLimit, r_executor, respones, p_ret, awaited,
                 authVars, lazyVars, treeVars>>

\* A worker thread of the pool takes a queued work item.
PubWorkerStart(t) ==
    /\ tasks[t].st = "queued"
    /\ Cardinality(Running(tasks)) < max_workers
    /\ tasks' = [tasks EXCEPT ![t].st = "running"]
    /\ UNCHANGED <<years, srvTotal, srvLimit, r_executor, p_pc, p_i, futures, respones, p_ret, awaited,
                 authVars, lazyVars, treeVars>>

\* requests.get returns the service's answer.
PubWorkerDone(t) ==
    /\ tasks[t].st = "running"
    /\ tasks' = [tasks EXCEPT ![t].st = "done",
                              ![t].resp = Some(Respond(tasks[t].url))]
    /\ UNCHANGED <<years, srvTotal, srvLimit, r_executor, p_pc, p_i, futures, respones, p_ret, awaited,
                 authVars, lazyVars, treeVars>>

\* requests.get raises: the future holds the exception.
PubWorkerFail(t) ==
    /\ tasks[t].st = "running"
    /\ tasks' = [tasks EXCEPT ![t].st = "failed"]
    /\ UNCHANGED <<years, srvTotal, srvLimit, r_executor, p_pc, p_i, futures, respones, p_ret, awaited,
                 authVars, lazyVars, treeVars>>

\* A mutant of PubReturn: the call returns from inside the loop, with
\* requests still pending.
PubReturn_Early ==
    /\ p_pc = "loop"
    /\ p_pc' = "done"
    /\ p_ret' = Some(respones)
    /\ UNCHANGED <<years, srvTotal, srvLimit, r_executor, p_i, tasks, futures, respones, awaited,
                 authVars, lazyVars, treeVars>>

\* A mutant of PubDrivePage: a page without hits is skipped only when it is
\* the last one; otherwise the next offset is requested.
PubDrivePage_ContinueEmpty ==
    /\ p_pc = "loop"
    /\ futures # <<>>
    /\ LET t == futures[Len(futures)]
           rest == SubSeq(futures, 1, Len(futures) - 1)
       IN
       /\ tasks[t].st = "done"
       /\ awaited' = Append(awaited, t)
       /\ LET json_info == tasks[t].resp[1]
              first == json_info.first
              sent == json_info.sent
              total == json_info.total
          IN
          /\ respones' = IF total = 0 \/ json_info.hit = None
                         THEN respones
                         ELSE respones \o cleanup(json_info.hit[1])
          /\ IF first + sent < total
             THEN /\ tasks' = Append(tasks,
                         NewTask(ContinuationUrl(json_info.url, first + sent)))
                  /\ futures' = Append(rest, Len(tasks) + 1)
             ELSE /\ futures' = rest
                  /\ UNCHANGED tasks
    /\ UNCHANGED <<years, srvTotal, srvLimit, r_executor, p_pc, p_i, p_ret,
                 authVars, lazyVars, treeVars>>

\* line 240 with futures empty, line 254: return respones.
PubReturn ==
    /\ p_pc = "loop"
    /\ futures = <<>>
    /\ p_pc' = "done"
    /\ p_ret' = Some(respones)
    /\ UNCHANGED <<years, srvTotal, srvLimit, r_executor, p_i, tasks, futures, respones, awaited,
                 authVars, lazyVars, treeVars>>

\* A mutant of PubDrivePage: the oldest pending future is awaited (a queue).
PubDrivePage_Fifo ==
    /\ p_pc = "loop"
    /\ futures # <<>>
    /\ LET t == Head(futures)
           rest == Tail(futures)
       IN
       /\ tasks[t].st = "done"
       /\ awaited' = Append(awaited, t)
       /\ LET json_info == tasks[t].resp[1]
              first == json_info.first
              sent == json_info.sent
              total == json_info.total
          IN
          IF total = 0 \/ json_info.hit = None
          THEN /\ futures' = rest
               /\ UNCHANGED <<tasks, respones>>
          ELSE /\ respones' = respones \o cleanup(json_info.hit[1])
               /\ IF first + sent < total
                  THEN /\ tasks' = Append(tasks,
                              NewTask(ContinuationUrl(json_info.url, first + sent)))
                       /\ futures' = Append(rest, Len(tasks) + 1)
                  ELSE /\ futures' = rest
                       /\ UNCHANGED tasks
    /\ UNCHANGED <<years, srvTotal, srvLimit, r_executor, p_pc, p_i, p_ret,
                 authVars, lazyVars, treeVars>>

\* lines 241-253 for a page that arrived: futures.pop().result() is the
\* response of the last future of the list.
PubDrivePage ==
    /\ p_pc = "loop"
    /\ futures # <<>>
    /\ LET t == futures[Len(futures)]
           rest == SubSeq(futures, 1, Len(futures) - 1)
       IN
       /\ tasks[t].st = "done"
       /\ awaited' = Append(awaited, t)
       /\ LET json_info == tasks[t].resp[1]
              first == json_info.first
              sent == json_info.sent
              total == json_info.total
          IN
          IF total = 0 \/ json_info.hit = None
          THEN /\ futures' = rest
               /\ UNCHANGED <<tasks, respones>>
          ELSE /\ respones' = respones \o cleanup(json_info.hit[1])
               /\ IF first + sent < total
                  THEN /\ tasks' = Append(tasks,
                              NewTask(ContinuationUrl(json_info.url, first + sent)))
                       /\ futures' = Append(rest, Len(tasks) + 1)
                  ELSE /\ futures' = rest
                       /\ UNCHANGED tasks
    /\ UNCHANGED <<years, srvTotal, srvLimit, r_executor, p_pc, p_i, p_ret,
                 authVars, lazyVars, treeVars>>

\* A mutant of PubDriveFail: the failed page is skipped and the sweep goes on.
PubDriveFail_Skip ==
    /\ p_pc = "loop"
    /\ futures # <<>>
    /\ tasks[futures[Len(futures)]].st = "failed"
    /\ awaited' = Append(awaited, futures[Len(futures)])
    /\ futures' = SubSeq(futures, 1, Len(futures) - 1)
    /\ UNCHANGED <<years, srvTotal, srvLimit, r_executor, p_pc, p_i, tasks, respones, p_ret,
                 authVars, lazyVars, treeVars>>

\* line 241 for a request that failed: result() re-raises the exception,
\* nothing catches it, the call ends and its locals are gone.
PubDriveFail ==
    /\ p_pc = "loop"
    /\ futures # <<>>
    /\ tasks[futures[Len(futures)]].st = "failed"
    /\ awaited' = Append(awaited, futures[Len(futures)])
    /\ futures' = SubSeq(futures, 1, Len(futures) - 1)
    /\ p_pc' = "raised"
    /\ UNCHANGED <<years, srvTotal, srvLimit, r_executor, p_i, tasks, respones, p_ret,
                 authVars, lazyVars, treeVars>>

PubNext ==
    \/ PubCall
    \/ PubSubmit
    \/ \E t \in 1..Len(tasks) : PubWorkerStart(t)
    \/ \E t \in 1..Len(tasks) : PubWorkerDone(t)
    \/ \E t \in 1..Len(tasks) : PubWorkerFail(t)
    \/ PubDrivePage
    \/ PubDriveFail
    \/ PubReturn

SpecPub == PubInit /\ [][PubNext]_vars

SpecPubLimited == PubInitLimited /\ [][PubNext]_vars


\* ------------------------------------------------------------------------
\* Claims about search_publication
\* ------------------------------------------------------------------------
CeilDiv(a, b) == (a + b - 1) \div b

\* The offsets (f) of the page requests issued for a year, in the order issued.
OffsetsOf(y) ==
    LET ts == SelectSeq(tasks, LAMBDA t : Param(t.url, "q", 0) = y)
    IN  [k \in 1..Len(ts) |-> Param(ts[k].url, "f", 0)]

RECURSIVE RecordsOf(_, _)
\* The number of hit records of year y in a list of runs.
RecordsOf(list, y) ==
    IF list = <<>> THEN 0
    ELSE (IF Head(list).year = y THEN Head(list).n ELSE 0)
             + RecordsOf(Tail(list), y)

\* The runs of year y in a list are the records 0 .. total-1, each once.
CoversOnce(list, y, total) ==
    \A r \in 0..(CeilDiv(total, PageSize) - 1) :
        Cardinality({i \in 1..Len(list) :
                        /\ list[i].year = y
                        /\ list[i].first = r * PageSize
                        /\ list[i].n = Min(PageSize, total - r * PageSize)}) = 1

\* C1: for every year whose total T is positive, the page requests issued for
\* it are at offsets 0, 1000, 2000, ... and never more than ceil(T/1000) of
\* them; when search_publication has returned there are exactly ceil(T/1000),
\* and the returned list holds exactly T hit records of that year (the records
\* 0..T-1, each once), whatever the other years' pages did in between.
C1_PageSweep ==
    \A i \in 1..Len(years) :
        LET y == years[i]
            T == srvTotal[y]
            offs == OffsetsOf(y)
        IN  T > 0 =>
              /\ Len(offs) <= CeilDiv(T, PageSize)
              /\ \A k \in 1..Len(offs) : offs[k] = (k - 1) * PageSize
              /\ p_pc = "done" =>
                    /\ Len(offs) = CeilDiv(T, PageSize)
                    /\ RecordsOf(p_ret[1], y) = T
                    /\ CoversOnce(p_ret[1], y, T)

\* C1's case: a year of 2500 hits was swept in 3 requests next to another
\* year of several pages, and the call returned.
C1_Witness ==
    /\ p_pc = "done"
    /\ Len(years) = 2
    /\ srvTotal[1] = 2 * PageSize + PageSize \div 2
    /\ srvTotal[2] > PageSize
    /\ OffsetsOf(1) = <<0, PageSize, 2 * PageSize>>
    /\ RecordsOf(p_ret[1], 1) = 2 * PageSize + PageSize \div 2

\* The driver takes the result of the last future of the list in this step.
DriverAwaits == p_pc = "loop" /\ awaited' # awaited

\* C4: when the request the driver awaits has failed, the call ends raised at
\* that step; a raised call has delivered nothing and from then on awaits and
\* submits nothing; and a call that returns has seen no request fail.
C4_FailureAborts ==
    [][ /\ (DriverAwaits /\ tasks[futures[Len(futures)]].st = "failed")
              => p_pc' = "raised"
        /\ p_pc' = "raised" => p_ret' = None
        /\ p_pc = "raised" =>
              /\ p_pc' = "raised"
              /\ awaited' = awaited
              /\ futures' = futures
              /\ Len(tasks') = Len(tasks)
        /\ p_pc' = "done" => \A t \in 1..Len(tasks') : tasks'[t].st = "done"
      ]_vars

\* C4's case: a continuation request failed after earlier pages had been
\* accumulated, while another year's request was still pending.
C4_Witness ==
    /\ p_pc = "raised"
    /\ respones # <<>>
    /\ futures # <<>>
    /\ p_ret = None
    /\ Param(tasks[awaited[Len(awaited)]].url, "f", 0) > 0


\* search_publication when no request fails.
PubNextOk ==
    \/ PubCall
    \/ PubSubmit
    \/ \E t \in 1..Len(tasks) : PubWorkerStart(t)
    \/ \E t \in 1..Len(tasks) : PubWorkerDone(t)
    \/ PubDrivePage
    \/ PubReturn

\* The calling thread runs on, a free worker thread takes a queued work
\* item, and a request that does not fail is answered.
PubFairness ==
    /\ WF_vars(PubCall \/ PubSubmit \/ PubDrivePage \/ PubReturn)
    /\ WF_vars(\E t \in 1..Len(tasks) : PubWorkerStart(t))
    /\ WF_vars(\E t \in 1..Len(tasks) : PubWorkerDone(t))

SpecPubFair == PubInit /\ [][PubNextOk]_vars /\ PubFairness

\* The request t was answered with hits and with more to come.
MoreToCome(t) ==
    /\ tasks[t].resp # None
    /\ tasks[t].resp[1].total # 0
    /\ tasks[t].resp[1].hit # None
    /\ tasks[t].resp[1].first + tasks[t].resp[1].sent < tasks[t].resp[1].total

\* Some request continues request t: same query, offset first + sent.
Continued(t) ==
    \E u \in 1..Len(tasks) :
        /\ Param(tasks[u].url, "q", 0) = Param(tasks[t].url, "q", 0)
        /\ Param(tasks[u].url, "f", 0)
               = tasks[t].resp[1].first + tasks[t].resp[1].sent

\* The call has returned with nothing pending: every request submitted was
\* awaited and every page with more to come was continued.
Drained ==
    /\ futures = <<>>
    /\ {awaited[i] : i \in 1..Len(awaited)} = 1..Len(tasks)
    /\ \A t \in 1..Len(tasks) : tasks[t].st = "done"
    /\ \A t \in 1..Len(tasks) : MoreToCome(t) => Continued(t)

MostRecent(S) == CHOOSE t \in S : \A u \in S : u <= t

\* C13: every await of the drive loop is on the most recently submitted task
\* that is still pending, so a continuation just submitted is awaited before
\* any older pending request; and the initial per-year requests are awaited
\* in the reverse of the order of their submission.
C13_StackOrder ==
    /\ [][ Len(awaited') > Len(awaited) =>
              /\ futures # <<>>
              /\ awaited' = Append(awaited,
                     MostRecent({futures[i] : i \in 1..Len(futures)}))
         ]_vars
    /\ [](\A i, j \in 1..Len(awaited) :
             (i < j /\ awaited[i] <= Len(years) /\ awaited[j] <= Len(years))
                 => awaited[i] > awaited[j])

\* C13's case: two years; the second year's first page was awaited first, then
\* its continuation, while the first year's older request is still pending.
C13_Witness ==
    /\ Len(years) = 2
    /\ Len(awaited) >= 2
    /\ awaited[1] = 2
    /\ awaited[2] = 3
    /\ Param(tasks[3].url, "f", 0) = PageSize
    /\ 1 \in {futures[i] : i \in 1..Len(futures)}

\* The page the driver takes in a step that awaits a request that arrived.
PageTaken == tasks[futures[Len(futures)]].resp[1]

TakesPage ==
    /\ Len(awaited') > Len(awaited)
    /\ futures # <<>>
    /\ tasks[futures[Len(futures)]].st = "done"

\* C14: a page whose total is zero or that has no hit list adds no record and
\* no request, even when its first + sent is below its total; every other
\* page adds the info of each of its hits, in order, and one request, for the
\* same query at offset first + sent, exactly when first + sent < total.
C14_PageContribution ==
    [][ TakesPage =>
          LET page == PageTaken IN
          IF page.total = 0 \/ page.hit = None
          THEN /\ respones' = respones
               /\ tasks' = tasks
          ELSE /\ respones' = respones \o
                     [i \in 1..Len(page.hit[1]) |-> page.hit[1][i].info]
               /\ IF page.first + page.sent < page.total
                  THEN /\ Len(tasks') = Len(tasks) + 1
                       /\ SubSeq(tasks', 1, Len(tasks)) = tasks
                       /\ Param(tasks'[Len(tasks')].url, "q", 0)
                              = Param(page.url, "q", 0)
                       /\ Param(tasks'[Len(tasks')].url, "f", 0)
                              = page.first + page.sent
                       /\ tasks'[Len(tasks')].st = "queued"
                  ELSE tasks' = tasks
      ]_vars

\* C14's case: a page without a hit list whose first + sent is below its
\* total has been taken, after a page of the same year that had hits; no
\* request follows it and the call has returned.
C14_Witness ==
    /\ p_pc = "done"
    /\ Len(years) = 1
    /\ Len(tasks) = 2
    /\ tasks[2].resp # None
    /\ tasks[2].resp[1].hit = None
    /\ tasks[2].resp[1].first + tasks[2].resp[1].sent < tasks[2].resp[1].total
    /\ awaited = <<1, 2>>
    /\ Len(respones) = 1

\* ========================================================================
\* search_author
\* ========================================================================

\* The last path segment of the i-th hit's canonical URL.
HitName(i) == <<"h1", "h2", "h3", "h4", "h5", "h6">>[i]

\* The canonical URL of the i-th hit, as its path segments.
HitUrl(i) == <<"pers", "hd", "h", HitName(i)>>

\* The hit list of a search response with n hits.
HitList(n) == [i \in 1..n |-> [info |-> [url |-> HitUrl(i)]]]

\* x.url.split('/')[-2:]
UrlPt(url) == SubSeq(url, Len(url) - 1, Len(url))

\* A work item executor.submit(resolve_url, url): `author` is resolve_url's
\* local, `result` what the future holds (None, or <<author>>), `exc` whether
\* the future holds an exception; `outcome` records how the resolution went.
NewResolve(url) ==
    [url |-> url, st |-> "queued", author |-> None, result |-> None,
     exc |-> FALSE, outcome |-> "none"]

\* A mutant of ResolveFailure: resolve_url has no try/except, and the
\* exception ends up in the future.
ResolveFailure_Raise(task, what) ==
    [task EXCEPT !.st = "done", !.exc = TRUE, !.outcome = what]

\* lines 191-192: except: pass, and resolve_url returns None.
ResolveFailure(task, what) ==
    [task EXCEPT !.st = "done", !.result = None, !.outcome = what]

\* A mutant of CollectResult: the author is put in front.
CollectResult_Front(list, author) == <<author>> \o list

\* line 216: results.append(future.result())
CollectResult(list, author) == Append(list, author)

AuthInit ==
    /\ hits \in {None} \cup {Some(HitList(n)) : n \in 0..MaxHits}
    /\ a_pc = "start" /\ a_i = 1 /\ a_tasks = <<>>
    /\ results = <<>> /\ a_ret = None /\ a_order = <<>>
    /\ executor = "none"
    /\ PubRest /\ LazyRest /\ TreeRest

\* lines 196-209: the search request, the pool and the lists; without a
\* 'hit' key the bare `return` hands Python's None to the caller.
AuthCall ==
    /\ a_pc = "start"
    /\ IF hits = None
       THEN /\ a_pc' = "done"
            /\ a_ret' = None
       ELSE /\ a_pc' = IF hits[1] = <<>> THEN "collect" ELSE "submit"
            /\ UNCHANGED a_ret
    /\ executor' = "open"
    /\ UNCHANGED <<hits, a_i, a_tasks, results, a_order,
                 pubVars, lazyVars, treeVars>>

\* lines 210-212: one resolve_url work item per hit, in hit order.
AuthSubmit ==
    /\ a_pc = "submit"
    /\ a_i <= Len(hits[1])
    /\ a_tasks' = Append(a_tasks, NewResolve(hits[1][a_i].info.url))
    /\ IF a_i = Len(hits[1])
       THEN a_pc' = "collect" /\ a_i' = 1
       ELSE a_pc' = "submit" /\ a_i' = a_i + 1
    /\ UNCHANGED <<hits, executor, results, a_ret, a_order,
                 pubVars, lazyVars, treeVars>>

\* A worker thread of the pool takes a queued work item.
AuthWorkerStart(t) ==
    /\ a_tasks[t].st = "queued"
    /\ Cardinality(Running(a_tasks)) < max_workers
    /\ a_tasks' = [a_tasks EXCEPT ![t].st = "running"]
    /\ UNCHANGED <<hits, executor, a_pc, a_i, results, a_ret, a_order,
                 pubVars, lazyVars, treeVars>>

\* lines 186-188: requests.get(url) succeeds, Author(urlpt) is constructed
\* unloaded.
ResolveGet(t) ==
    /\ a_tasks[t].st = "running"
    /\ a_tasks[t].author = None
    /\ a_tasks' = [a_tasks EXCEPT
          ![t].author = Some([urlpt |-> UrlPt(a_tasks[t].url), loaded |-> FALSE])]
    /\ UNCHANGED <<hits, executor, a_pc, a_i, results, a_ret, a_order,
                 pubVars, lazyVars, treeVars>>

\* line 186 raises (or line 188 does).
ResolveGetFail(t) ==
    /\ a_tasks[t].st = "running"
    /\ a_tasks[t].author = None
    /\ a_tasks' = [a_tasks EXCEPT ![t] = ResolveFailure(@, "get_failed")]
    /\ a_order' = Append(a_order, t)
    /\ UNCHANGED <<hits, executor, a_pc, a_i, results, a_ret,
                 pubVars, lazyVars, treeVars>>

\* A mutant of ResolveLoad: resolve_url returns the author it constructed
\* without calling load_data.
ResolveLoad_NoLoad(t) ==
    /\ a_tasks[t].st = "running"
    /\ a_tasks[t].author # None
    /\ a_tasks' = [a_tasks EXCEPT ![t].st = "done",
                                  ![t].result = a_tasks[t].author,
                                  ![t].outcome = "ok"]
    /\ a_order' = Append(a_order, t)
    /\ UNCHANGED <<hits, executor, a_pc, a_i, results, a_ret,
                 pubVars, lazyVars, treeVars>>

\* lines 189-190: author.load_data() succeeds and the author is returned.
ResolveLoad(t) ==
    /\ a_tasks[t].st = "running"
    /\ a_tasks[t].author # None
    /\ LET author == [a_tasks[t].author[1] EXCEPT !.loaded = TRUE] IN
       a_tasks' = [a_tasks EXCEPT ![t].st = "done",
                                  ![t].author = Some(author),
                                  ![t].result = Some(author),
                                  ![t].outcome = "ok"]
    /\ a_order' = Append(a_order, t)
    /\ UNCHANGED <<hits, executor, a_pc, a_i, results, a_ret,
                 pubVars, lazyVars, treeVars>>

\* line 189: author.load_data() raises.
ResolveLoadFail(t) ==
    /\ a_tasks[t].st = "running"
    /\ a_tasks[t].author # None
    /\ a_tasks' = [a_tasks EXCEPT ![t] = ResolveFailure(@, "load_failed")]
    /\ a_order' = Append(a_order, t)
    /\ UNCHANGED <<hits, executor, a_pc, a_i, results, a_ret,
                 pubVars, lazyVars, treeVars>>

\* lines 213-216: future.result() waits for the a_i-th future; it re-raises
\* an exception the future holds.
AuthCollect ==
    /\ a_pc = "collect"
    /\ a_i <= Len(a_tasks)
    /\ a_tasks[a_i].st = "done"
    /\ IF a_tasks[a_i].exc
       THEN /\ a_pc' = "raised"
            /\ UNCHANGED <<a_i, results>>
       ELSE /\ a_i' = a_i + 1
            /\ results' = IF a_tasks[a_i].result = None
                          THEN results
                          ELSE CollectResult(results, a_tasks[a_i].result[1])
            /\ UNCHANGED a_pc
    /\ UNCHANGED <<hits, executor, a_tasks, a_ret, a_order,
                 pubVars, lazyVars, treeVars>>

\* line 217: return results.
AuthReturn ==
    /\ a_pc = "collect"
    /\ a_i > Len(a_tasks)
    /\ a_pc' = "done"
    /\ a_ret' = Some(results)
    /\ UNCHANGED <<hits, executor, a_i, a_tasks, results, a_order,
                 pubVars, lazyVars, treeVars>>

AuthNext ==
    \/ AuthCall
    \/ AuthSubmit
    \/ \E t \in 1..Len(a_tasks) : AuthWorkerStart(t)
    \/ \E t \in 1..Len(a_tasks) : ResolveGet(t)
    \/ \E t \in 1..Len(a_tasks) : ResolveGetFail(t)
    \/ \E t \in 1..Len(a_tasks) : ResolveLoad(t)
    \/ \E t \in 1..Len(a_tasks) : ResolveLoadFail(t)
    \/ AuthCollect
    \/ AuthReturn

SpecAuth == AuthInit /\ [][AuthNext]_vars

\* ------------------------------------------------------------------------
\* Claims about search_author
\* ------------------------------------------------------------------------

\* The identifiers of the hits whose resolution succeeded, in hit order.
ResolvedInHitOrder ==
    LET ok == SelectSeq(a_tasks, LAMBDA t : t.outcome = "ok")
    IN  [k \in 1..Len(ok) |-> UrlPt(ok[k].url)]

\* The identifiers of the authors of a list, in list order.
UrlPtsOf(list) == [k \in 1..Len(list) |-> list[k].urlpt]

Returned == a_pc = "done" /\ hits # None

\* C2: the list search_author returns holds the resolved authors in the
\* order of the hit list (the hits that were dropped left out), whatever the
\* order in which the work items completed.
C2_SubmissionOrder ==
    Returned => UrlPtsOf(a_ret[1]) = ResolvedInHitOrder

\* C2's case: of three hits the last completed first and the first last, and
\* both are in the returned list.
C2_Witness ==
    /\ Returned
    /\ Len(a_tasks) = 3
    /\ a_order[1] = 3 /\ a_order[3] = 1
    /\ a_tasks[1].outcome = "ok" /\ a_tasks[3].outcome = "ok"
    /\ Len(a_ret[1]) >= 2

\* C3: search_author never raises because a resolution failed; the returned
\* list holds exactly the hits whose resolution succeeded, each once.
C3_FailureIsolated ==
    /\ a_pc # "raised"
    /\ Returned =>
          /\ Len(a_ret[1]) = Cardinality({t \in 1..Len(a_tasks) :
                                             a_tasks[t].outcome = "ok"})
          /\ \A t \in 1..Len(a_tasks) :
                a_tasks[t].outcome = "ok" <=>
                    \E k \in 1..Len(a_ret[1]) :
                        a_ret[1][k].urlpt = UrlPt(a_tasks[t].url)

\* C3's case: three hits, the second failed, the result has two elements.
C3_Witness ==
    /\ Returned
    /\ Len(a_tasks) = 3
    /\ a_tasks[2].outcome \in {"get_failed", "load_failed"}
    /\ a_tasks[1].outcome = "ok" /\ a_tasks[3].outcome = "ok"
    /\ Len(a_ret[1]) = 2

\* C5: with no hit list in the response search_author returns an empty
\* collection (not Python's None) and has submitted no work item.
C5_NoHitListEmptyResult ==
    (a_pc = "done" /\ hits = None) => (a_ret = Some(<<>>) /\ a_tasks = <<>>)


\* C18: every author of the list search_author returns was loaded by the
\* work item that resolved it: load_data had assigned its field mapping
\* before resolve_url returned it, so line 26 finds data present and an
\* access to a declared field neither fetches nor fails in load_data.
C18_ReturnedLoaded ==
    Returned =>
        /\ \A i \in 1..Len(a_ret[1]) : a_ret[1][i].loaded
        /\ \A i \in 1..Len(a_ret[1]) :
              \E t \in 1..Len(a_tasks) :
                  /\ a_tasks[t].outcome = "ok"
                  /\ a_tasks[t].result = Some(a_ret[1][i])

\* C18's case: of three hits two were resolved and returned, and one was
\* dropped because its load_data failed.
C18_Witness ==
    /\ Returned
    /\ Len(a_tasks) = 3
    /\ Len(a_ret[1]) = 2
    /\ a_tasks[2].outcome = "load_failed"
    /\ a_ret[1][1].loaded /\ a_ret[1][2].loaded

\* ========================================================================
\* make_dict_from_tree
\* ========================================================================

\* A text is the sequence of its characters.
Tags == {"a", "b"}
Texts == {None, Some(<<"x">>)}

\* An element: its tag, its attributes (a function from names to texts), its
\* text (None, or <<text>>) and its children in document order.
Element(tag, attrib, text, children) ==
    [tag |-> tag, attrib |-> attrib, text |-> text, children |-> children]

RECURSIVE TreesOfSize(_), ForestsOfSize(_)
\* The element trees of exactly n elements.
TreesOfSize(n) ==
    IF n = 1
    THEN {Element(tag, <<>>, text, <<>>) : tag \in Tags, text \in Texts}
    ELSE {Element(tag, <<>>, None, c) : tag \in Tags, c \in ForestsOfSize(n - 1)}

\* The sequences of element trees of n elements in all.
ForestsOfSize(n) ==
    IF n = 0
    THEN {<<>>}
    ELSE UNION {{<<t>> \o f : t \in TreesOfSize(k), f \in ForestsOfSize(n - k)} :
                   k \in 1..n}

\* The element trees of at most n elements.
TreesUpTo(n) == UNION {TreesOfSize(k) : k \in 1..n}

\* The values a dictionary holds: a leaf's text, a nested dictionary, a list.
TextValue(text) == [t |-> "text", v |-> text]
DictValue(d) == [t |-> "dict", v |-> d]
ListValue(l) == [t |-> "list", v |-> l]

\* The dictionary d with d[key] = value set.
DictSet(d, key, value) ==
    [k \in DOMAIN d \cup {key} |-> IF k = key THEN value ELSE d[k]]

\* A mutant of MergeChild: a repeated tag overwrites the earlier value.
MergeChild_Overwrite(d, tag, value) == DictSet(d, tag, value)

\* lines 56-63: a tag seen before turns its value into a list (unless it is
\* one already) and the new value is appended; a new tag is inserted.
MergeChild(d, tag, value) ==
    IF tag \in DOMAIN d
    THEN LET old == IF d[tag].t # "list" THEN ListValue(<<d[tag]>>) ELSE d[tag]
         IN  DictSet(d, tag, ListValue(Append(old.v, value)))
    ELSE DictSet(d, tag, value)

RECURSIVE internal_iter(_), MergeChildren(_, _)
\* lines 54-63: the loop over tree.getchildren(), d being accum[tree.tag].
MergeChildren(children, d) ==
    IF children = <<>>
    THEN d
    ELSE LET each == Head(children)
             result == internal_iter(each)
         IN  MergeChildren(Tail(children), MergeChild(d, each.tag, result[each.tag]))

\* internal_iter(tree, {}) for an element: the one-entry dictionary
\* {tree.tag: ...}.
internal_iter(tree) ==
    IF tree.children # <<>>
    THEN DictSet(<<>>, tree.tag, DictValue(MergeChildren(tree.children, <<>>)))
    ELSE DictSet(<<>>, tree.tag, TextValue(tree.text))

\* make_dict_from_tree(element_tree): {} for None.
make_dict_from_tree(element_tree) ==
    IF element_tree = None THEN <<>> ELSE internal_iter(element_tree[1])

TreeInit ==
    /\ t_in \in {None} \cup {Some(t) : t \in TreesUpTo(MaxNodes)}
    /\ t_out = None
    /\ t_pc = "input"
    /\ PubRest /\ AuthRest /\ LazyRest

\* One call of make_dict_from_tree.
TreeDecode ==
    /\ t_pc = "input"
    /\ t_out' = Some(make_dict_from_tree(t_in))
    /\ t_pc' = "output"
    /\ UNCHANGED <<t_in, pubVars, authVars, lazyVars>>

TreeNext == TreeDecode

SpecTree == TreeInit /\ [][TreeNext]_vars

\* ------------------------------------------------------------------------
\* Claims about make_dict_from_tree
\* ------------------------------------------------------------------------

\* The children of a parent that carry a tag, in document order.
Siblings(parent, tag) == SelectSeq(parent.children, LAMBDA c : c.tag = tag)

RECURSIVE DecodingOf(_, _)
\* value is the decoding of element e: the text of a leaf; for a parent a
\* dictionary keyed by its children's tags, where a tag that occurs n >= 2
\* times holds a list of length n whose i-th element is the decoding of the
\* i-th such child, and a tag that occurs once holds that child's decoding
\* itself.
DecodingOf(e, value) ==
    IF e.children = <<>>
    THEN value = TextValue(e.text)
    ELSE /\ value.t = "dict"
         /\ DOMAIN value.v = {e.children[i].tag : i \in 1..Len(e.children)}
         /\ \A tag \in DOMAIN value.v :
               LET sibs == Siblings(e, tag) IN
               IF Len(sibs) >= 2
               THEN /\ value.v[tag].t = "list"
                    /\ Len(value.v[tag].v) = Len(sibs)
                    /\ \A i \in 1..Len(sibs) :
                          /\ value.v[tag].v[i].t # "list"
                          /\ DecodingOf(sibs[i], value.v[tag].v[i])
               ELSE /\ value.v[tag].t # "list"
                    /\ DecodingOf(sibs[1], value.v[tag])

\* C9: in the dictionary make_dict_from_tree returns, under every parent a
\* tag repeated n >= 2 times holds a list of the n decodings in document
\* order, and a tag that occurs once holds its child's text or nested
\* dictionary directly.
C9_ListPromotion ==
    (t_pc = "output" /\ t_in # None) =>
        /\ DOMAIN t_out[1] = {t_in[1].tag}
        /\ DecodingOf(t_in[1], t_out[1][t_in[1].tag])

\* C9's case: a parent with a tag repeated three times, two of the repeated
\* children differing, and a tag that occurs once.
C9_Witness ==
    /\ t_pc = "output" /\ t_in # None
    /\ Len(Siblings(t_in[1], "a")) = 3
    /\ Len(Siblings(t_in[1], "b")) = 1
    /\ t_out[1][t_in[1].tag].v["a"].t = "list"
    /\ t_out[1][t_in[1].tag].v["a"].v[1] # t_out[1][t_in[1].tag].v["a"].v[2]
    /\ t_out[1][t_in[1].tag].v["b"].t = "text"

\* A parent with a repeated tag whose children are parents themselves: the
\* list holds nested dictionaries.
NestedListReached ==
    /\ t_pc = "output" /\ t_in # None
    /\ Len(Siblings(t_in[1], "b")) = 2
    /\ \A i \in 1..2 : Siblings(t_in[1], "b")[i].children # <<>>
    /\ t_out[1][t_in[1].tag].v["b"].t = "list"
    /\ t_out[1][t_in[1].tag].v["b"].v[1].t = "dict"


\* ========================================================================
\* LazyAPIData, Author, Publication
\* ========================================================================

\* Author.__init__: the declared fields.
AuthorAttrs == {"name", "publications", "homepages", "affiliation"}

\* Publication.__init__: the declared fields.
PublicationAttrs ==
    {"type", "sub_type", "mdate", "authors", "editors", "title", "year",
     "month", "journal", "volume", "number", "chapter", "pages", "ee", "isbn",
     "url", "booktitle", "crossref", "publisher", "school", "citations",
     "series"}

\* self.lazy_attrs
lazy_attrs(kind) == IF kind = "Author" THEN AuthorAttrs ELSE PublicationAttrs

\* The attribute names a caller asks for: Author's fields, some of
\* Publication's, and one that no entity declares.
AccessKeys ==
    AuthorAttrs \cup {"authors", "year", "citations"}
        \cup {"affiliation2"}

SeqsUpTo(S, n) == UNION {[1..k -> S] : k \in 0..n}

\* ---- documents the service answers with

Ellipsis == <<".", ".", ".">>
Whitespace == <<" ">>

Leaf(tag, attrib, text) == Element(tag, attrib, Some(text), <<>>)

AuthorA == Leaf("author", <<>>, <<"A">>)
AuthorB == Leaf("author", <<>>, <<"B">>)
AuthorLists == {<<>>, <<AuthorA>>, <<AuthorA, AuthorB>>, <<AuthorB, AuthorA>>}

YearElements ==
    {<<>>, <<Leaf("year", <<>>, <<"2", "0", "2", "0">>)>>,
     <<Leaf("year", <<>>, <<"x">>)>>}

CiteElements ==
    {Leaf("cite", <<>>, Ellipsis),
     Leaf("cite", ("label" :> <<"L">>), <<"r">>),
     Leaf("cite", <<>>, <<"s">>)}

ExtraElements ==
    {<<>>,
     <<Leaf("title", <<>>, <<"X">>),
       Leaf("journal", <<>>, <<"J">>),
       Leaf("series", ("href" :> <<"u">>), <<"S">>),
       Leaf("series", <<>>, <<"T">>)>>}

\* A document: well formed or not, and its root element.
Document(root) == [wellformed |-> TRUE, root |-> Some(root)]
Malformed == [wellformed |-> FALSE, root |-> None]

\* The answers of the publication record endpoint: a root whose first child
\* is the record, a root without children, or no XML at all.
PublicationDocs(maxCites) ==
    {Document(Element("dblp", <<>>, Some(Whitespace),
        <<Element("article", ("mdate" :> <<"m">>), Some(Whitespace),
                  extra \o authors \o year \o cites)>>)) :
        extra \in ExtraElements, authors \in AuthorLists,
        year \in YearElements, cites \in SeqsUpTo(CiteElements, maxCites)}
    \cup {Document(Element("dblp", <<>>, None, <<>>)), Malformed}

\* The record elements of an author's profile: a record with one field and
\* text between its tags, or an element without children, with text or not.
ProfileRecords ==
    {[t EXCEPT !.text = Some(Whitespace)] : t \in TreesOfSize(2)}
        \cup TreesOfSize(1)

\* The answers of the author profile endpoint.
AuthorDocs(maxRecords) ==
    {Document(Element("dblpperson", attrib, Some(Whitespace),
        <<Element("person", <<>>, Some(Whitespace), notes \o urls)>>
            \o [i \in 1..Len(records) |->
                   Element("r", <<>>, Some(Whitespace), <<records[i]>>)])) :
        attrib \in {<<>>, ("name" :> <<"N">>)},
        notes \in {<<>>, <<Leaf("note", ("type" :> <<"affiliation">>), <<"U">>),
                          Leaf("note", ("type" :> <<"award">>), <<"W">>)>>},
        urls \in {<<>>, <<Leaf("url", <<>>, <<"h">>)>>},
        records \in SeqsUpTo(ProfileRecords, maxRecords)}
    \cup {Malformed}

DocsOf(kind) ==
    IF kind = "Author" THEN AuthorDocs(MaxRecords) ELSE PublicationDocs(MaxCites)

\* ---- parsing

\* attrib.get(name, None)
AttribGet(e, name) ==
    IF name \in DOMAIN e.attrib THEN Some(e.attrib[name]) ELSE None

\* xpath('<tag>'): the children of e with that tag, in document order.
XPathChildren(e, tag) == SelectSeq(e.children, LAMBDA c : c.tag = tag)

\* The text nodes of a sequence of elements, in document order: an element
\* without text has none.
TextNodes(elements) ==
    LET withText == SelectSeq(elements, LAMBDA c : c.text # None)
    IN  [i \in 1..Len(withText) |-> withText[i].text[1]]

\* xpath('<tag>/text()')
XPathText(e, tag) == TextNodes(XPathChildren(e, tag))

\* first_or_none(seq)
first_or_none(seq) == IF seq = <<>> THEN None ELSE Some(seq[1])

DigitChars == <<"0", "1", "2", "3", "4", "5", "6", "7", "8", "9">>
IsDigit(ch) == \E i \in 1..Len(DigitChars) : DigitChars[i] = ch
DigitValue(ch) == (CHOOSE i \in 1..Len(DigitChars) : DigitChars[i] = ch) - 1

RECURSIVE DecimalValue(_)
DecimalValue(chars) ==
    IF chars = <<>> THEN 0
    ELSE 10 * DecimalValue(SubSeq(chars, 1, Len(chars) - 1))
             + DigitValue(chars[Len(chars)])

Ok(value) == [ok |-> TRUE, value |-> Some(value), error |-> "none"]
Raise(error) == [ok |-> FALSE, value |-> None, error |-> error]

\* A mutant of int: None and text that is no number become 0.
int_Lenient(text) ==
    IF text # None /\ \A i \in 1..Len(text[1]) : IsDigit(text[1][i])
    THEN Ok(DecimalValue(text[1]))
    ELSE Ok(0)

\* int(x) of None or of a text of decimal digits: int(None) raises TypeError,
\* text that is no number raises ValueError.
int(text) ==
    IF text = None THEN Raise("TypeError")
    ELSE IF text[1] # <<>> /\ \A i \in 1..Len(text[1]) : IsDigit(text[1][i])
         THEN Ok(DecimalValue(text[1]))
         ELSE Raise("ValueError")

\* Citation(c.text, c.attrib.get('label', None))
Citation(c) == [reference |-> c.text, label |-> AttribGet(c, "label")]

\* Series(s.text, s.attrib.get('href', None))
Series(e) == [text |-> e.text, href |-> AttribGet(e, "href")]

\* A mutant of Citations: the placeholder entries are kept.
Citations_KeepPlaceholder(publication) ==
    LET cites == XPathChildren(publication, "cite")
    IN  [i \in 1..Len(cites) |-> Citation(cites[i])]

\* lines 175-176: the cite elements whose text is not '...'.
Citations(publication) ==
    LET cites == SelectSeq(XPathChildren(publication, "cite"),
                           LAMBDA c : c.text # Some(Ellipsis))
    IN  [i \in 1..Len(cites) |-> Citation(cites[i])]

\* A mutant of PublicationFields: the dictionary is built without 'series'.
PublicationFields_NoSeries(publication, year) ==
    [ type |-> publication.tag,
      sub_type |-> AttribGet(publication, "publtype"),
      mdate |-> AttribGet(publication, "mdate"),
      authors |-> XPathText(publication, "author"),
      editors |-> XPathText(publication, "editor"),
      title |-> first_or_none(XPathText(publication, "title")),
      year |-> year,
      month |-> first_or_none(XPathText(publication, "month")),
      journal |-> first_or_none(XPathText(publication, "journal")),
      volume |-> first_or_none(XPathText(publication, "volume")),
      number |-> first_or_none(XPathText(publication, "number")),
      chapter |-> first_or_none(XPathText(publication, "chapter")),
      pages |-> first_or_none(XPathText(publication, "pages")),
      ee |-> first_or_none(XPathText(publication, "ee")),
      isbn |-> first_or_none(XPathText(publication, "isbn")),
      url |-> first_or_none(XPathText(publication, "url")),
      booktitle |-> first_or_none(XPathText(publication, "booktitle")),
      crossref |-> first_or_none(XPathText(publication, "crossref")),
      publisher |-> first_or_none(XPathText(publication, "publisher")),
      school |-> first_or_none(XPathText(publication, "school")),
      citations |-> Citations(publication) ]

\* lines 154-179: the dictionary `data`, year being the integer int(..) gave.
PublicationFields(publication, year) ==
    [ type |-> publication.tag,
      sub_type |-> AttribGet(publication, "publtype"),
      mdate |-> AttribGet(publication, "mdate"),
      authors |-> XPathText(publication, "author"),
      editors |-> XPathText(publication, "editor"),
      title |-> first_or_none(XPathText(publication, "title")),
      year |-> year,
      month |-> first_or_none(XPathText(publication, "month")),
      journal |-> first_or_none(XPathText(publication, "journal")),
      volume |-> first_or_none(XPathText(publication, "volume")),
      number |-> first_or_none(XPathText(publication, "number")),
      chapter |-> first_or_none(XPathText(publication, "chapter")),
      pages |-> first_or_none(XPathText(publication, "pages")),
      ee |-> first_or_none(XPathText(publication, "ee")),
      isbn |-> first_or_none(XPathText(publication, "isbn")),
      url |-> first_or_none(XPathText(publication, "url")),
      booktitle |-> first_or_none(XPathText(publication, "booktitle")),
      crossref |-> first_or_none(XPathText(publication, "crossref")),
      publisher |-> first_or_none(XPathText(publication, "publisher")),
      school |-> first_or_none(XPathText(publication, "school")),
      citations |-> Citations(publication),
      series |-> LET all == XPathChildren(publication, "series")
                 IN  first_or_none([i \in 1..Len(all) |-> Series(all[i])]) ]

\* Publication.load_data after the fetch, lines 150-179: the dictionary, or
\* the exception raised on the way.
ParsePublication(doc) ==
    IF ~doc.wellformed THEN Raise("XMLSyntaxError")
    ELSE LET root == doc.root[1]
             publication == first_or_none(
                 IF root.tag = "dblp" THEN root.children ELSE <<>>)
         IN  IF publication = None THEN Raise("ValueError")
             ELSE LET year == int(first_or_none(XPathText(publication[1], "year")))
                  IN  IF ~year.ok THEN Raise(year.error)
                      ELSE Ok(PublicationFields(publication[1], year.value[1]))

\* Author.load_data after the fetch, lines 91-97.
ParseAuthor(doc) ==
    IF ~doc.wellformed THEN Raise("XMLSyntaxError")
    ELSE LET root == doc.root[1]
             top == IF root.tag = "dblpperson" THEN root.children ELSE <<>>
             persons == SelectSeq(top, LAMBDA c : c.tag = "person")
             rs == SelectSeq(top, LAMBDA c : c.tag = "r")
             \* the children of the elements of a sequence, in document order
             ChildrenOf(es) ==
                 LET F[i \in 0..Len(es)] ==
                         IF i = 0 THEN <<>> ELSE F[i - 1] \o es[i].children
                 IN  F[Len(es)]
             notes == SelectSeq(ChildrenOf(persons),
                          LAMBDA c : c.tag = "note"
                                     /\ AttribGet(c, "type") = Some(<<"affiliation">>))
             urls == SelectSeq(ChildrenOf(persons), LAMBDA c : c.tag = "url")
             records == SelectSeq(ChildrenOf(rs), LAMBDA c : c.text # None)
         IN  IF "name" \notin DOMAIN root.attrib THEN Raise("KeyError")
             ELSE Ok([ name |-> root.attrib["name"],
                       affiliation |-> TextNodes(notes),
                       publications |-> [i \in 1..Len(records) |->
                                            make_dict_from_tree(Some(records[i]))],
                       homepages |-> TextNodes(urls) ])

\* self.load_data() after the fetch, by the entity's class.
Parse(kind, doc) ==
    IF kind = "Author" THEN ParseAuthor(doc) ELSE ParsePublication(doc)

\* What `raise (AttributeError, key)` raises: Python 3 refuses to raise a
\* tuple (TypeError: exceptions must derive from BaseException); Python 2
\* raises the tuple's first element, without the key.
RaiseTuple(key) ==
    { [status |-> "error", type |-> "TypeError", args |-> <<>>, value |-> None],
      [status |-> "error", type |-> "AttributeError", args |-> <<>>, value |-> None] }

Failed(type) == [status |-> "error", type |-> type, args |-> <<>>, value |-> None]
Value(v) == [status |-> "value", type |-> "none", args |-> <<>>, value |-> Some(v)]
Pending == [status |-> "pending", type |-> "none", args |-> <<>>, value |-> None]
NoOutcome == [status |-> "none", type |-> "none", args |-> <<>>, value |-> None]

LazyInitFor(callers) ==
    /\ \E kind \in {"Author", "Publication"} :
          /\ ent = [kind |-> kind, data |-> None, xml |-> None]
          /\ \E doc \in DocsOf(kind) : srv_doc = Some(doc)
    /\ c_pc = [c \in callers |-> "idle"]
    /\ c_key = [c \in callers |-> "none"]
    /\ c_doc = [c \in callers |-> None]
    /\ c_out = [c \in callers |-> NoOutcome]
    /\ PubRest /\ AuthRest /\ TreeRest

LazyInit == LazyInitFor({1})

\* line 25 true: the key is declared.
AccessDeclared(c, key) ==
    /\ c_pc[c] = "idle"
    /\ key \in lazy_attrs(ent.kind)
    /\ c_pc' = [c_pc EXCEPT ![c] = "check"]
    /\ c_key' = [c_key EXCEPT ![c] = key]
    /\ c_out' = [c_out EXCEPT ![c] = Pending]
    /\ UNCHANGED <<ent, srv_doc, c_doc, pubVars, authVars, treeVars>>

\* line 25 false, line 29: raise (AttributeError, key).
AccessUndeclared(c, key) ==
    /\ c_pc[c] = "idle"
    /\ key \notin lazy_attrs(ent.kind)
    /\ c_key' = [c_key EXCEPT ![c] = key]
    /\ \E e \in RaiseTuple(key) : c_out' = [c_out EXCEPT ![c] = e]
    /\ UNCHANGED <<ent, srv_doc, c_pc, c_doc, pubVars, authVars, treeVars>>

\* A mutant of CheckLoaded: every access loads, loaded or not.
CheckLoaded_Always(c) ==
    /\ c_pc[c] = "check"
    /\ c_pc' = [c_pc EXCEPT ![c] = "fetch"]
    /\ UNCHANGED <<ent, srv_doc, c_key, c_doc, c_out, pubVars, authVars, treeVars>>

\* line 26: if self.data is None.
CheckLoaded(c) ==
    /\ c_pc[c] = "check"
    /\ c_pc' = [c_pc EXCEPT ![c] = IF ent.data = None THEN "fetch" ELSE "read"]
    /\ UNCHANGED <<ent, srv_doc, c_key, c_doc, c_out, pubVars, authVars, treeVars>>

\* A mutant of Fetch: load_data clears self.data before it fills it again.
Fetch_ClearsData(c) ==
    /\ c_pc[c] = "fetch"
    /\ c_doc' = [c_doc EXCEPT ![c] = srv_doc]
    /\ ent' = [ent EXCEPT !.xml = srv_doc, !.data = None]
    /\ c_pc' = [c_pc EXCEPT ![c] = "parse"]
    /\ UNCHANGED <<srv_doc, c_key, c_out, pubVars, authVars, treeVars>>

\* load_data: requests.get answers; self.xml = resp.content.
Fetch(c) ==
    /\ c_pc[c] = "fetch"
    /\ c_doc' = [c_doc EXCEPT ![c] = srv_doc]
    /\ ent' = [ent EXCEPT !.xml = srv_doc]
    /\ c_pc' = [c_pc EXCEPT ![c] = "parse"]
    /\ UNCHANGED <<srv_doc, c_key, c_out, pubVars, authVars, treeVars>>

\* load_data: requests.get raises; the exception leaves __getattr__.
FetchFail(c) ==
    /\ c_pc[c] = "fetch"
    /\ c_pc' = [c_pc EXCEPT ![c] = "idle"]
    /\ c_out' = [c_out EXCEPT ![c] = Failed("ConnectionError")]
    /\ UNCHANGED <<ent, srv_doc, c_key, c_doc, pubVars, authVars, treeVars>>

\* load_data: the document parses and self.data = data.
ParseStore(c) ==
    /\ c_pc[c] = "parse"
    /\ Parse(ent.kind, c_doc[c][1]).ok
    /\ ent' = [ent EXCEPT !.data = Parse(ent.kind, c_doc[c][1]).value]
    /\ c_pc' = [c_pc EXCEPT ![c] = "read"]
    /\ c_doc' = [c_doc EXCEPT ![c] = None]
    /\ UNCHANGED <<srv_doc, c_key, c_out, pubVars, authVars, treeVars>>

\* load_data: parsing raises; self.data is not assigned.
ParseFail(c) ==
    /\ c_pc[c] = "parse"
    /\ ~Parse(ent.kind, c_doc[c][1]).ok
    /\ c_pc' = [c_pc EXCEPT ![c] = "idle"]
    /\ c_out' = [c_out EXCEPT ![c] = Failed(Parse(ent.kind, c_doc[c][1]).error)]
    /\ c_doc' = [c_doc EXCEPT ![c] = None]
    /\ UNCHANGED <<ent, srv_doc, c_key, pubVars, authVars, treeVars>>

\* line 28: return self.data[key].
Read(c) ==
    /\ c_pc[c] = "read"
    /\ c_pc' = [c_pc EXCEPT ![c] = "idle"]
    /\ c_out' = [c_out EXCEPT ![c] =
          IF ent.data = None THEN Failed("TypeError")
          ELSE IF c_key[c] \notin DOMAIN ent.data[1] THEN Failed("KeyError")
          ELSE Value(ent.data[1][c_key[c]])]
    /\ UNCHANGED <<ent, srv_doc, c_key, c_doc, pubVars, authVars, treeVars>>

LazyNext ==
    \/ \E c \in DOMAIN c_pc, key \in AccessKeys : AccessDeclared(c, key)
    \/ \E c \in DOMAIN c_pc, key \in AccessKeys : AccessUndeclared(c, key)
    \/ \E c \in DOMAIN c_pc : CheckLoaded(c)
    \/ \E c \in DOMAIN c_pc : Fetch(c)
    \/ \E c \in DOMAIN c_pc : FetchFail(c)
    \/ \E c \in DOMAIN c_pc : ParseStore(c)
    \/ \E c \in DOMAIN c_pc : ParseFail(c)
    \/ \E c \in DOMAIN c_pc : Read(c)

SpecLazy == LazyInit /\ [][LazyNext]_vars


\* ------------------------------------------------------------------------
\* Claims about the lazy entities
\* ------------------------------------------------------------------------

\* In this step caller c asks for an attribute its entity does not declare.
AsksUndeclared(c) ==
    /\ c_pc[c] = "idle"
    /\ c_pc'[c] = "idle"
    /\ c_key'[c] \notin lazy_attrs(ent.kind)
    /\ <<c_key'[c], c_out'[c]>> # <<c_key[c], c_out[c]>>

\* C6: asking for a name the entity does not declare fails with the
\* attribute-lookup error that carries the name, loaded or not, and neither
\* loads the entity nor changes its load state.
C6_InvalidField ==
    [][ \A c \in DOMAIN c_pc :
            AsksUndeclared(c) =>
                /\ c_out'[c].status = "error"
                /\ c_out'[c].type = "AttributeError"
                /\ c_out'[c].args = <<c_key'[c]>>
                /\ ent' = ent
      ]_vars

\* C7: the field mapping is absent, or holds exactly the declared fields.
C7_AllOrNothing ==
    ent.data = None \/ DOMAIN ent.data[1] = lazy_attrs(ent.kind)

\* C7's case: a Publication whose mapping is populated and was read.
C7_Witness ==
    /\ ent.data # None
    /\ ent.kind = "Publication"
    /\ c_out[1].status = "value"

\* The record element of a publication document, None when it has none.
RecordOf(doc) ==
    IF doc.wellformed /\ doc.root[1].children # <<>>
    THEN Some(doc.root[1].children[1])
    ELSE None

YearText(doc) ==
    LET ys == SelectSeq(RecordOf(doc)[1].children, LAMBDA e : e.tag = "year")
    IN  IF ys = <<>> THEN None ELSE ys[1].text

\* The error a load from this document must end with, "none" when the
\* document is complete: no XML, no record element, no year element, a year
\* that is no number, a profile root without name.
LoadError(kind, doc) ==
    IF ~doc.wellformed THEN "XMLSyntaxError"
    ELSE IF kind = "Author"
         THEN (IF "name" \in DOMAIN doc.root[1].attrib THEN "none" ELSE "KeyError")
         ELSE IF RecordOf(doc) = None THEN "ValueError"
         ELSE IF YearText(doc) = None THEN "TypeError"
         ELSE IF YearText(doc)[1] = <<"x">> THEN "ValueError"
         ELSE "none"

ElementsOf(doc, tag) ==
    SelectSeq(RecordOf(doc)[1].children, LAMBDA e : e.tag = tag)

Placeholders(doc) ==
    SelectSeq(ElementsOf(doc, "cite"), LAMBDA e : e.text = Some(Ellipsis))

KeptCites(doc) ==
    SelectSeq(ElementsOf(doc, "cite"), LAMBDA e : e.text # Some(Ellipsis))

\* The record of the round trip: year 2020, title X, two authors, three
\* cites of which one is the placeholder.
IsRoundTripRecord(doc) ==
    /\ YearText(doc) = Some(<<"2", "0", "2", "0">>)
    /\ Len(ElementsOf(doc, "title")) = 1
    /\ ElementsOf(doc, "title")[1].text = Some(<<"X">>)
    /\ Len(ElementsOf(doc, "author")) = 2
    /\ Len(ElementsOf(doc, "cite")) = 3
    /\ Len(Placeholders(doc)) = 1

\* C10: a loaded Publication has one author per author element, in document
\* order; its year is the integer the year element spells; its citations
\* are the cite elements that are not the placeholder, in document order,
\* each with its text and its label or None; and the round-trip record loads
\* with two authors, two citations and the integer 2020.
C10_PublicationRoundTrip ==
    (ent.kind = "Publication" /\ ent.data # None) =>
        LET doc == ent.xml[1]
            data == ent.data[1]
            authors == ElementsOf(doc, "author")
            kept == KeptCites(doc)
        IN  /\ Len(data.authors) = Len(authors)
            /\ \A i \in 1..Len(authors) : data.authors[i] = authors[i].text[1]
            /\ YearText(doc) = Some(<<"2", "0", "2", "0">>) => data.year = 2020
            /\ Len(data.citations) = Len(kept)
            /\ \A i \in 1..Len(kept) :
                  /\ data.citations[i].reference = kept[i].text
                  /\ data.citations[i].label =
                        (IF "label" \in DOMAIN kept[i].attrib
                         THEN Some(kept[i].attrib["label"]) ELSE None)
            /\ IsRoundTripRecord(doc) =>
                  /\ Len(data.authors) = 2
                  /\ Len(data.citations) = 2
                  /\ data.year = 2020

\* C10's case: the round-trip record was loaded, its placeholder standing
\* between two kept cites, and its citations were read.
C10_Witness ==
    /\ ent.kind = "Publication" /\ ent.data # None
    /\ IsRoundTripRecord(ent.xml[1])
    /\ ElementsOf(ent.xml[1], "cite")[2].text = Some(Ellipsis)
    /\ c_out[1].status = "value"
    /\ c_key[1] = "citations"
    /\ Len(c_out[1].value[1]) = 2


\* C12: with one caller, an access that loads fetches once (after the fetch
\* it parses, after the parse it reads or fails, never fetches again); the
\* mapping is stored only while it is absent and never changes once stored;
\* on a loaded entity no access fetches, and each returns the stored value.
C12_LoadedOnce ==
    [][ \A c \in DOMAIN c_pc :
          /\ c_pc[c] = "fetch" => c_pc'[c] \in {"parse", "idle"}
          /\ c_pc[c] = "parse" => c_pc'[c] \in {"read", "idle"}
          /\ c_pc[c] = "read" => c_pc'[c] = "idle"
          /\ ent'.data # ent.data => (ent.data = None /\ c_pc[c] = "parse")
          /\ ent.data # None =>
                /\ c_pc'[c] \notin {"fetch", "parse"}
                /\ ent'.xml = ent.xml
                /\ (c_pc[c] = "read" /\ c_pc'[c] = "idle") =>
                      c_out'[c] = Value(ent.data[1][c_key[c]])
      ]_vars

\* C12's case: the entity is loaded, an earlier access has returned, and a
\* new access to a declared field is at the test of line 26.
C12_Witness ==
    /\ ent.kind = "Publication"
    /\ ent.data # None
    /\ c_pc[1] = "check"
    /\ c_key[1] = "year"

\* ------------------------------------------------------------------------
\* Two callers on one entity
\* ------------------------------------------------------------------------
\* Two threads access fields of the same entity; nothing in __getattr__ or
\* load_data takes a lock, so their steps interleave freely.
LazyInitRace ==
    /\ \E kind \in {"Author", "Publication"} :
          /\ ent = [kind |-> kind, data |-> None, xml |-> None]
          /\ \E doc \in (IF kind = "Author"
                         THEN AuthorDocs(MaxRaceRecords)
                         ELSE PublicationDocs(MaxRaceCites)) :
                srv_doc = Some(doc)
    /\ c_pc = [c \in {1, 2} |-> "idle"]
    /\ c_key = [c \in {1, 2} |-> "none"]
    /\ c_doc = [c \in {1, 2} |-> None]
    /\ c_out = [c \in {1, 2} |-> NoOutcome]
    /\ PubRest /\ AuthRest /\ TreeRest

SpecRace == LazyInitRace /\ [][LazyNext]_vars

FullyPopulated ==
    /\ ent.data # None
    /\ DOMAIN ent.data[1] = lazy_attrs(ent.kind)

\* C17: with two callers on one entity, whatever the interleaving, a caller
\* that reaches the read of line 28 finds the field mapping present with
\* every declared field, and the read returns the stored value of its field.
\* (That both callers may load is C17_Witness.)
C17_ReadsPopulated ==
    /\ [](\A c \in DOMAIN c_pc : c_pc[c] = "read" => FullyPopulated)
    /\ [][ \A c \in DOMAIN c_pc :
             (c_pc[c] = "read" /\ c_pc'[c] = "idle") =>
                 c_out'[c] = Value(ent.data[1][c_key[c]]) ]_vars

\* C17's case: both callers found the entity unloaded and both have fetched
\* its document; neither has stored the mapping yet.
C17_Witness ==
    /\ DOMAIN c_pc = {1, 2}
    /\ ent.data = None
    /\ c_pc[1] = "parse" /\ c_pc[2] = "parse"
    /\ c_doc[1] # None /\ c_doc[2] # None
    /\ Parse(ent.kind, c_doc[1][1]).ok

\* ------------------------------------------------------------------------
\* Claims about the worker pools
\* ------------------------------------------------------------------------
\* C16: a call creates its own pool, and once the call has completed
\* (returned, returned early without a hit list, or raised) its pool is shut
\* down.
C16_PoolTornDown ==
    /\ p_pc \in {"done", "raised"} => r_executor = "shutdown"
    /\ a_pc \in {"done", "raised"} => executor = "shutdown"

=============================================================================
